---- MODULE Spec2Model ----
(***************************************************************************)
(* Hardware-bound license manager (250511-license-key-system/main.go).     *)
(*                                                                         *)
(* Go strings and byte slices are sequences of byte values 0..255.  The    *)
(* text codecs the program calls (encoding/hex, encoding/base64, the       *)
(* textual form of a UUID) are modelled byte for byte.  The two one-way    *)
(* primitives (SHA-1 inside uuid.NewSHA1 and Ed25519) are modelled as      *)
(* byte-valued functions that are collision-free on the explored inputs    *)
(* (the idealised-cryptography assumption; CryptoModelSound states it).    *)
(* A JSON file is modelled as the map from its keys to its string values.  *)
(***************************************************************************)
EXTENDS Integers, Sequences, FiniteSets, TLC

(***************************************************************************)
(* Bounds of the exploration.                                              *)
(***************************************************************************)
NumSeeds == 2        \* distinct outcomes of ed25519.GenerateKey
NumNamespaces == 2   \* distinct outcomes of uuid.NewRandom
MaxCmds == 3         \* commands run in one behaviour

(***************************************************************************)
(* Bytes and strings.                                                      *)
(***************************************************************************)
Byte == 0..255

\* a function on 1..n as the sequence it is
AsSeq(f) == f \o <<>>

Pow2(n) == IF n = 0 THEN 1 ELSE IF n = 1 THEN 2 ELSE IF n = 2 THEN 4
           ELSE IF n = 3 THEN 8 ELSE IF n = 4 THEN 16 ELSE IF n = 5 THEN 32
           ELSE IF n = 6 THEN 64 ELSE 128

\* b with bit n (0 = least significant) inverted
FlipBit(b, n) == IF (b \div Pow2(n)) % 2 = 1 THEN b - Pow2(n) ELSE b + Pow2(n)

\* s with the byte at position p (1-based) replaced by c
SetAt(s, p, c) == AsSeq([i \in 1..Len(s) |-> IF i = p THEN c ELSE s[i]])

Slice(s, from, to) == AsSeq([i \in 1..(IF to >= from THEN to - from + 1 ELSE 0) |-> s[from + i - 1]])

ToLowerByte(c) == IF c >= 65 /\ c <= 90 THEN c + 32 ELSE c

(***************************************************************************)
(* encoding/hex                                                            *)
(***************************************************************************)
\* "0123456789abcdef"
HexTable == <<48, 49, 50, 51, 52, 53, 54, 55, 56, 57, 97, 98, 99, 100, 101, 102>>

\* hex.EncodeToString
HexEncodeToString(b) ==
    AsSeq([i \in 1..(2 * Len(b)) |->
        IF i % 2 = 1 THEN HexTable[(b[(i + 1) \div 2] \div 16) + 1]
                     ELSE HexTable[(b[i \div 2] % 16) + 1]])

\* the value of a hex digit, -1 for any other byte (hex accepts both cases)
FromHexChar(c) ==
    IF c >= 48 /\ c <= 57 THEN c - 48
    ELSE IF c >= 97 /\ c <= 102 THEN c - 87
    ELSE IF c >= 65 /\ c <= 70 THEN c - 55
    ELSE -1

\* hex.DecodeString: an error on a non-hex byte or an odd length
HexDecodeString(s) ==
    IF Len(s) % 2 = 1 \/ \E i \in 1..Len(s) : FromHexChar(s[i]) < 0
    THEN [ok |-> FALSE, val |-> <<>>]
    ELSE [ok |-> TRUE,
          val |-> AsSeq([i \in 1..(Len(s) \div 2) |->
                     16 * FromHexChar(s[2 * i - 1]) + FromHexChar(s[2 * i])])]

(***************************************************************************)
(* encoding/base64, StdEncoding (padded, not strict)                       *)
(***************************************************************************)
\* the character of a 6-bit value in the standard alphabet
B64Char(v) ==
    IF v < 26 THEN 65 + v
    ELSE IF v < 52 THEN 97 + (v - 26)
    ELSE IF v < 62 THEN 48 + (v - 52)
    ELSE IF v = 62 THEN 43 ELSE 47

\* the decode map: the 6-bit value of a character, 255 outside the alphabet
B64Value(c) ==
    IF c >= 65 /\ c <= 90 THEN c - 65
    ELSE IF c >= 97 /\ c <= 122 THEN c - 97 + 26
    ELSE IF c >= 48 /\ c <= 57 THEN c - 48 + 52
    ELSE IF c = 43 THEN 62
    ELSE IF c = 47 THEN 63
    ELSE 255

\* base64.StdEncoding.EncodeToString
B64EncodeToString(b) ==
    LET n == Len(b)
        At(i) == IF i <= n THEN b[i] ELSE 0
        Ch(k) ==
            LET q == (k - 1) \div 4
                j == (k - 1) % 4
                b0 == At(3 * q + 1)
                b1 == At(3 * q + 2)
                b2 == At(3 * q + 3)
            IN  IF j = 0 THEN B64Char(b0 \div 4)
                ELSE IF j = 1 THEN B64Char((b0 % 4) * 16 + (b1 \div 16))
                ELSE IF j = 2 THEN
                    (IF 3 * q + 2 > n THEN 61
                     ELSE B64Char((b1 % 16) * 4 + (b2 \div 64)))
                ELSE (IF 3 * q + 3 > n THEN 61 ELSE B64Char(b2 % 64))
    IN  AsSeq([k \in 1..(4 * ((n + 2) \div 3)) |-> Ch(k)])

IsNewline(c) == c = 10 \/ c = 13

\* The bytes of the quanta of t, whose first m characters are alphabet
\* characters; nbytes of them are produced.  The unused low bits of a final
\* partial quantum are dropped without a check (the encoding is not strict).
B64Bytes(t, m, nbytes) ==
    LET V(i) == IF i <= m THEN B64Value(t[i]) ELSE 0
    IN  AsSeq([k \in 1..nbytes |->
            LET q == (k - 1) \div 3
                r == (k - 1) % 3
                v0 == V(4 * q + 1)
                v1 == V(4 * q + 2)
                v2 == V(4 * q + 3)
                v3 == V(4 * q + 4)
            IN  IF r = 0 THEN v0 * 4 + (v1 \div 16)
                ELSE IF r = 1 THEN (v1 % 16) * 16 + (v2 \div 4)
                ELSE (v2 % 4) * 64 + v3])

\* base64.StdEncoding.DecodeString.  The decoder skips '\r' and '\n' wherever
\* they stand; every other byte outside the alphabet is corrupt input, and so
\* is padding that is misplaced, missing or followed by anything.
\* t is the input without line breaks, L its length and p the position of
\* its first byte outside the alphabet (L + 1 when there is none)
B64DecodeQuanta(t, L, p) ==
    IF p > L
    THEN IF L % 4 = 0 THEN [ok |-> TRUE, val |-> B64Bytes(t, L, (L \div 4) * 3)]
         ELSE [ok |-> FALSE, val |-> <<>>]
    ELSE IF t[p] # 61 \/ (p - 1) % 4 < 2 THEN [ok |-> FALSE, val |-> <<>>]
    ELSE IF (p - 1) % 4 = 2
    THEN IF p + 1 = L /\ t[p + 1] = 61
         THEN [ok |-> TRUE, val |-> B64Bytes(t, p - 1, ((p - 1) \div 4) * 3 + 1)]
         ELSE [ok |-> FALSE, val |-> <<>>]
    ELSE IF p = L
         THEN [ok |-> TRUE, val |-> B64Bytes(t, p - 1, ((p - 1) \div 4) * 3 + 2)]
         ELSE [ok |-> FALSE, val |-> <<>>]

RECURSIVE FirstOutsideAlphabet(_, _)
FirstOutsideAlphabet(t, i) ==
    IF i > Len(t) \/ B64Value(t[i]) = 255 THEN i ELSE FirstOutsideAlphabet(t, i + 1)

B64DecodeStripped(t) == B64DecodeQuanta(t, Len(t), FirstOutsideAlphabet(t, 1))

\* a decoder for which a line break is corrupt input like any other byte
\* outside the alphabet
B64DecodeKeepingLineBreaks(s) == B64DecodeStripped(s)

B64DecodeString(s) == B64DecodeStripped(SelectSeq(s, LAMBDA c : ~IsNewline(c)))

(***************************************************************************)
(* github.com/google/uuid                                                  *)
(***************************************************************************)
\* UUID.String: xxxxxxxx-xxxx-xxxx-xxxx-xxxxxxxxxxxx in lower-case hex
UUIDString(u) ==
    LET h == HexEncodeToString(u)
    IN  Slice(h, 1, 8) \o <<45>> \o Slice(h, 9, 12) \o <<45>> \o Slice(h, 13, 16)
        \o <<45>> \o Slice(h, 17, 20) \o <<45>> \o Slice(h, 21, 32)

\* "urn:uuid:"
UrnPrefix == <<117, 114, 110, 58, 117, 117, 105, 100, 58>>

\* the 36-character form: hyphens at 9, 14, 19 and 24, hex pairs elsewhere
UUIDParse36(s) ==
    IF s[9] # 45 \/ s[14] # 45 \/ s[19] # 45 \/ s[24] # 45
    THEN [ok |-> FALSE, val |-> <<>>]
    ELSE HexDecodeString(Slice(s, 1, 8) \o Slice(s, 10, 13) \o Slice(s, 15, 18)
                         \o Slice(s, 20, 23) \o Slice(s, 25, 36))

\* uuid.Parse: the forms are told apart by length alone
UUIDParse(s) ==
    LET n == Len(s)
        Err == [ok |-> FALSE, val |-> <<>>]
    IN  IF n = 36 THEN UUIDParse36(s)
        ELSE IF n = 45
        THEN IF [i \in 1..9 |-> ToLowerByte(s[i])] = UrnPrefix
             THEN UUIDParse36(Slice(s, 10, 45)) ELSE Err
        ELSE IF n = 38 THEN UUIDParse36(Slice(s, 2, 37))
        ELSE IF n = 32 THEN HexDecodeString(s)
        ELSE Err

\* Stand-in for crypto/sha1: 20 bytes mixed from four position-weighted sums
\* of the input and its length.  It is deterministic and depends on every
\* input byte, on its position and on the length; CryptoModelSound checks
\* that it has no collision on the inputs the model explores.
RECURSIVE WeightedSum(_, _, _)
WeightedSum(d, w, i) ==
    IF i = 0 THEN 0
    ELSE (WeightedSum(d, w, i - 1) + d[i] * (((w * i * i + i) % 64) * w + 1)) % 256

Sha1Mix(s0, s1, s2, s3, len) ==
    AsSeq([j \in 1..20 |->
        (s0 * (2 * j + 1) + s1 * (j * j + 1) + s2 * ((j % 7) + 1) + s3 * ((j % 3) + 2)
         + 131 * j + 17 * len) % 256])

Sha1Sum(d) ==
    Sha1Mix(WeightedSum(d, 0, Len(d)), WeightedSum(d, 1, Len(d)),
            WeightedSum(d, 2, Len(d)), WeightedSum(d, 3, Len(d)), Len(d))

\* uuid.NewSHA1 (newHash): the first 16 digest bytes of space ++ data, with
\* the version nibble set to 5 and the variant bits to 10
NewSHA1(space, data) ==
    LET h == Sha1Sum(space \o data)
    IN  AsSeq([i \in 1..16 |->
            IF i = 7 THEN (h[i] % 16) + 80
            ELSE IF i = 9 THEN (h[i] % 64) + 128
            ELSE h[i]])

\* The n-th outcome of reading len bytes from crypto/rand.
RandomBytes(n, len) == AsSeq([i \in 1..len |-> (n * 37 + i * 11 + len) % 256])

\* uuid.NewRandom, n-th outcome: random bytes with version 4, variant 10
NewRandom(n) ==
    LET r == RandomBytes(n, 16)
    IN  AsSeq([i \in 1..16 |->
            IF i = 7 THEN (r[i] % 16) + 64
            ELSE IF i = 9 THEN (r[i] % 64) + 128
            ELSE r[i]])

(***************************************************************************)
(* crypto/ed25519                                                          *)
(*                                                                         *)
(* A private key is seed ++ public key; signing is deterministic.  The     *)
(* scalar arithmetic is replaced by byte-wise maps: PublicOfSeed is        *)
(* injective, and Sign depends on the seed, on the public half of the      *)
(* private key and on the message.  Verify accepts exactly the signature   *)
(* Sign produces for the key pair of the given public key.                 *)
(***************************************************************************)
PublicOfSeed(seed) == AsSeq([i \in 1..32 |-> (seed[i] * 5 + 7 * i + 3) % 256])

SeedOfPublic(pub) == AsSeq([i \in 1..32 |-> ((pub[i] + 256 - 7 * i - 3) * 205) % 256])

\* ed25519.NewKeyFromSeed
NewKeyFromSeed(seed) == seed \o PublicOfSeed(seed)

\* ed25519.GenerateKey(nil), n-th outcome of the random source
GenerateKey(n) ==
    LET priv == NewKeyFromSeed(RandomBytes(n, 32))
    IN  [pub |-> Slice(priv, 33, 64), priv |-> priv]

\* a Public that copies the seed half priv[:32] of the key
PrivateKeyPublicFromSeedHalf(priv) ==
    IF Len(priv) < 32 THEN [panic |-> TRUE, val |-> <<>>]
    ELSE [panic |-> FALSE, val |-> Slice(priv, 1, 32)]

\* PrivateKey.Public: copy(publicKey, priv[32:]) into 32 zeroed bytes; the
\* slice expression panics when the key is shorter than 32 bytes

PrivateKeyPublic(priv) ==
    IF Len(priv) < 32 THEN [panic |-> TRUE, val |-> <<>>]
    ELSE [panic |-> FALSE,
          val |-> AsSeq([i \in 1..32 |-> IF 32 + i <= Len(priv) THEN priv[32 + i] ELSE 0])]

MsgByte(msg, i) == IF Len(msg) = 0 THEN 0 ELSE msg[((i - 1) % Len(msg)) + 1]

\* The 64 signature bytes R ++ S of a 64-byte private key.  The top three
\* bits of the last byte of S are zero, as in every canonical signature.
SignBytes(priv, msg) ==
    LET seed == Slice(priv, 1, 32)
        pub == Slice(priv, 33, 64)
        R == [i \in 1..32 |->
                (seed[i] * 3 + MsgByte(msg, i) * 7 + pub[i] + i + Len(msg)) % 256]
        S == [i \in 1..32 |->
                LET v == (seed[i] * 5 + MsgByte(msg, i + 7) * 11 + pub[i] * 3 + 2 * i) % 256
                IN  IF i = 32 THEN v % 32 ELSE v]
    IN  R \o S

\* ed25519.Sign: panics on a private key that is not 64 bytes long
Sign(priv, msg) ==
    IF Len(priv) # 64 THEN [panic |-> TRUE, val |-> <<>>]
    ELSE [panic |-> FALSE, val |-> SignBytes(priv, msg)]

\* ed25519.Verify: panics on a public key that is not 32 bytes long; false
\* for a signature that is not 64 bytes long or whose last byte has one of
\* its top three bits set; otherwise the signature equation
Verify(pub, msg, sig) ==
    IF Len(pub) # 32 THEN [panic |-> TRUE, val |-> FALSE]
    ELSE IF Len(sig) # 64 \/ sig[64] >= 32 THEN [panic |-> FALSE, val |-> FALSE]
    ELSE [panic |-> FALSE, val |-> sig = SignBytes(SeedOfPublic(pub) \o pub, msg)]

(***************************************************************************)
(* Raw identifiers, file locations and the host's network interfaces.      *)
(***************************************************************************)
\* Raw identifiers:
\*   ""  (as a --mac flag: not given, the address is detected)
\*   "AA:BB:CC:DD:EE:FF"  "AABBCCDDEEFF"  "AA:BB:CC:DD:EE:FE"
\*   "AA-BB-CC-DD-EE-FF"  "aa:bb:cc:dd:ee:ff"
MacList ==
    << <<>>,
       <<65, 65, 58, 66, 66, 58, 67, 67, 58, 68, 68, 58, 69, 69, 58, 70, 70>>,
       <<65, 65, 66, 66, 67, 67, 68, 68, 69, 69, 70, 70>>,
       <<65, 65, 58, 66, 66, 58, 67, 67, 58, 68, 68, 58, 69, 69, 58, 70, 69>>,
       <<65, 65, 45, 66, 66, 45, 67, 67, 45, 68, 68, 45, 69, 69, 45, 70, 70>>,
       <<97, 97, 58, 98, 98, 58, 99, 99, 58, 100, 100, 58, 101, 101, 58, 102, 102>> >>

\* the --mac values the commands are run with
FlagMacs == {MacList[i] : i \in {1, 2, 3}}

\* the raw identifiers the functions are applied to
RawIds == {MacList[i] : i \in DOMAIN MacList}

\* the defaults of the --config and --output / --license flags
Paths == {"licensor.json", "license.json"}

\* a location holds no file, <<>>, or one JSON object, <<obj>>
NoFile == <<>>

Exists(files, filename) == Len(files[filename]) > 0

Content(files, filename) == files[filename][1]

\* net.HardwareAddr.String: lower-case hex pairs joined by colons
HardwareAddrString(a) ==
    IF Len(a) = 0 THEN <<>>
    ELSE AsSeq([i \in 1..(3 * Len(a) - 1) |->
            IF i % 3 = 0 THEN 58
            ELSE IF i % 3 = 1 THEN HexTable[(a[(i + 2) \div 3] \div 16) + 1]
            ELSE HexTable[(a[(i + 1) \div 3] % 16) + 1]])

Loopback == [Name |-> "lo", up |-> TRUE, loopback |-> TRUE, HardwareAddr |-> <<>>]
Eth0 == [Name |-> "eth0", up |-> TRUE, loopback |-> FALSE,
         HardwareAddr |-> <<170, 187, 204, 221, 238, 255>>]
BrLan == [Name |-> "br-lan", up |-> FALSE, loopback |-> FALSE,
          HardwareAddr |-> <<170, 187, 204, 221, 238, 254>>]

\* the interface lists net.Interfaces may return on a host
Hosts == {<<Loopback>>, <<Loopback, Eth0, BrLan>>}

(***************************************************************************)
(* The program: main.go                                                    *)
(***************************************************************************)
VARIABLES
    fs,         \* the files: location -> NoFile or <<the JSON object there>>
    ifaces,     \* what net.Interfaces returns on this host
    out,        \* the last command run: its arguments and what it reported
    ncmds,      \* how many commands have run
    firstInit,  \* history: location -> what the first successful init wrote there
    call        \* function-level checks: the inputs drawn and the result

vars == <<fs, ifaces, out, ncmds, firstInit, call>>

\* a string field of a JSON object read into a struct: absent keys stay ""
Field(obj, key) == IF key \in DOMAIN obj THEN obj[key] ELSE <<>>

\* os.WriteFile(filename, jsonData, 0600)
WriteFile(files, filename, obj) == [files EXCEPT ![filename] = <<obj>>]

\* SaveConfig: the three fields as text, written over whatever is there
SaveConfigData(config) ==
    [private_key |-> HexEncodeToString(config.PrivateKey),
     public_key |-> HexEncodeToString(config.PublicKey),
     namespace_id |-> UUIDString(config.NamespaceID)]

SaveConfig(files, config, filename) == WriteFile(files, filename, SaveConfigData(config))

\* LoadConfig on the object stored in a file.  The public_key field is read
\* into the struct and never used: the public key is taken from the private
\* key (privKey.Public()).
\* priv and ns are the decoded private_key and the parsed namespace_id,
\* pub what privKey.Public() gives
LoadConfigDecoded(priv, ns, pub) ==
    IF ~priv.ok THEN [kind |-> "err", msg |-> "invalid private key format"]
    ELSE IF ~ns.ok THEN [kind |-> "err", msg |-> "invalid namespace UUID"]
    ELSE IF pub.panic THEN [kind |-> "panic"]
    ELSE [kind |-> "ok",
          config |-> [PrivateKey |-> priv.val,
                      PublicKey |-> pub.val,
                      NamespaceID |-> ns.val]]

\* a LoadConfig that returns the decoded public_key field for the public key
LoadConfigPublicFromField(obj) ==
    LoadConfigDecoded(HexDecodeString(Field(obj, "private_key")),
                      UUIDParse(Field(obj, "namespace_id")),
                      [panic |-> FALSE, val |-> HexDecodeString(Field(obj, "public_key")).val])

LoadConfigData(obj) ==
    LoadConfigDecoded(HexDecodeString(Field(obj, "private_key")),
                      UUIDParse(Field(obj, "namespace_id")),
                      PrivateKeyPublic(HexDecodeString(Field(obj, "private_key")).val))

LoadConfig(files, filename) ==
    IF ~Exists(files, filename)
    THEN [kind |-> "err", msg |-> "failed to read config file"]
    ELSE LoadConfigData(Content(files, filename))

\* GenerateKeyPair, for the n-th key and the m-th namespace the random
\* source can give
GenerateKeyPair(n, m) ==
    [PrivateKey |-> GenerateKey(n).priv,
     PublicKey |-> GenerateKey(n).pub,
     NamespaceID |-> NewRandom(m)]

\* GetBRLANMacAddress: the interface named br-lan if there is one, else the
\* first interface that is up, is no loopback and has an address
GetBRLANMacAddress(interfaces) ==
    LET br == {i \in 1..Len(interfaces) : interfaces[i].Name = "br-lan"}
        up == {i \in 1..Len(interfaces) :
                  /\ interfaces[i].up
                  /\ ~interfaces[i].loopback
                  /\ Len(interfaces[i].HardwareAddr) > 0}
        First(S) == CHOOSE i \in S : \A k \in S : i <= k
    IN  IF br # {}
        THEN [ok |-> TRUE, val |-> HardwareAddrString(interfaces[First(br)].HardwareAddr)]
        ELSE IF up # {}
        THEN [ok |-> TRUE, val |-> HardwareAddrString(interfaces[First(up)].HardwareAddr)]
        ELSE [ok |-> FALSE, val |-> <<>>]

\* strings.ReplaceAll(macAddress, ":", "")
StripColons(mac) == SelectSeq(mac, LAMBDA c : c # 58)

\* a derivation that hashes the raw identifier as given, colons included
MacAddressToUUIDv5NoCleanup(macAddress, namespaceID) == NewSHA1(namespaceID, macAddress)

\* MacAddressToUUIDv5: the version 5 UUID of the colon-free identifier

MacAddressToUUIDv5(macAddress, namespaceID) == NewSHA1(namespaceID, StripColons(macAddress))

\* GenerateLicenseKey: the signature of the 16 UUID bytes, in base64
LicenseKeyOfSignature(sig) ==
    IF sig.panic THEN [kind |-> "panic"]
    ELSE [kind |-> "ok", val |-> B64EncodeToString(sig.val)]

\* an issuer that signs the 36 characters of the UUID text, not its 16 bytes
GenerateLicenseKeyOverText(config, id) ==
    LicenseKeyOfSignature(Sign(config.PrivateKey, UUIDString(id)))

\* GenerateLicenseKey
GenerateLicenseKey(config, id) == LicenseKeyOfSignature(Sign(config.PrivateKey, id))

\* json.MarshalIndent of a LicenseData: private_key is omitted when empty
LicenseJSON(ld) ==
    LET keys == {"device_id", "device_uuid", "license_key", "public_key", "namespace_id"}
                \cup (IF ld.PrivateKey = <<>> THEN {} ELSE {"private_key"})
    IN  [k \in keys |->
            IF k = "device_id" THEN ld.DeviceID
            ELSE IF k = "device_uuid" THEN ld.DeviceUUID
            ELSE IF k = "license_key" THEN ld.LicenseKey
            ELSE IF k = "public_key" THEN ld.PublicKey
            ELSE IF k = "private_key" THEN ld.PrivateKey
            ELSE ld.NamespaceID]

SaveLicense(files, licenseData, filename) ==
    WriteFile(files, filename, LicenseJSON(licenseData))

\* json.Unmarshal into a LicenseData
LicenseOfJSON(obj) ==
    [DeviceID |-> Field(obj, "device_id"),
     DeviceUUID |-> Field(obj, "device_uuid"),
     LicenseKey |-> Field(obj, "license_key"),
     PublicKey |-> Field(obj, "public_key"),
     PrivateKey |-> Field(obj, "private_key"),
     NamespaceID |-> Field(obj, "namespace_id")]

LoadLicense(files, filename) ==
    IF ~Exists(files, filename)
    THEN [kind |-> "err", msg |-> "failed to read license file"]
    ELSE [kind |-> "ok", val |-> LicenseOfJSON(Content(files, filename))]

\* the value VerifyLicense returns when all three decodings succeeded
VerifyResult(v) ==
    IF v.panic THEN [kind |-> "panic"] ELSE [kind |-> "ok", val |-> v.val]

\* pk, id and sig are the decoded public key, identity and license key
VerifyDecoded(pk, id, sig) ==
    IF ~pk.ok THEN [kind |-> "err", msg |-> "invalid public key format"]
    ELSE IF ~id.ok THEN [kind |-> "err", msg |-> "invalid UUID format"]
    ELSE IF ~sig.ok THEN [kind |-> "err", msg |-> "invalid license key format"]
    ELSE VerifyResult(Verify(pk.val, id.val, sig.val))

\* a verifier that accepts every license key that decodes
VerifyLicenseWellFormedOnly(publicKeyHex, idStr, licenseKey, namespaceIDStr) ==
    VerifyDecoded(HexDecodeString(publicKeyHex), UUIDParse(idStr),
                  [ok |-> B64DecodeString(licenseKey).ok,
                   val |-> SignBytes(SeedOfPublic(HexDecodeString(publicKeyHex).val)
                                     \o HexDecodeString(publicKeyHex).val,
                                     UUIDParse(idStr).val)])

\* VerifyLicense.  namespaceIDStr is accepted and never read.
VerifyLicense(publicKeyHex, idStr, licenseKey, namespaceIDStr) ==
    VerifyDecoded(HexDecodeString(publicKeyHex), UUIDParse(idStr),
                  B64DecodeString(licenseKey))

(***************************************************************************)
(* The commands.  Each operator gives the files after the command and what *)
(* the command reported; a panic ends the process with the files as they   *)
(* were.                                                                   *)
(***************************************************************************)
\* what the verify command prints for the result of VerifyLicense
Verdict(res, macAddress) ==
    IF res.kind = "err"
    THEN [status |-> "Error verifying license", mac |-> macAddress, msg |-> res.msg]
    ELSE IF res.kind = "panic" THEN [status |-> "panic", mac |-> macAddress]
    ELSE [status |-> IF res.val THEN "VALID" ELSE "INVALID", mac |-> macAddress]

\* the --mac flag, or the detected address when the flag is empty
ResolveMac(mac, det) ==
    IF mac # <<>> THEN [ok |-> TRUE, val |-> mac] ELSE det

\* a verify command that checks the signature against the stored
\* device_uuid, without recomputing the identity
VerifyWithMacTrustingStoredUUID(licenseData, m, namespaceID) ==
    IF ~m.ok THEN [status |-> "Error getting MAC address", mac |-> <<>>]
    ELSE IF ~namespaceID.ok
    THEN [status |-> "Error parsing namespace UUID", mac |-> m.val]
    ELSE Verdict(VerifyLicense(licenseData.PublicKey, licenseData.DeviceUUID,
                               licenseData.LicenseKey, licenseData.NamespaceID),
                 m.val)

\* commandVerifyLicense after LoadLicense: the address, the namespace, the
\* identity recomputed from them, VerifyLicense, and the verdict printed.
\* The DeviceUUID of the record is not read.
\* m is the resolved address, namespaceID the parsed namespace of the record
VerifyWithMac(licenseData, m, namespaceID) ==
    IF ~m.ok THEN [status |-> "Error getting MAC address", mac |-> <<>>]
    ELSE IF ~namespaceID.ok
    THEN [status |-> "Error parsing namespace UUID", mac |-> m.val]
    ELSE Verdict(VerifyLicense(licenseData.PublicKey,
                               UUIDString(MacAddressToUUIDv5(m.val, namespaceID.val)),
                               licenseData.LicenseKey, licenseData.NamespaceID),
                 m.val)

VerifyRecord(licenseData, interfaces, mac) ==
    VerifyWithMac(licenseData, ResolveMac(mac, GetBRLANMacAddress(interfaces)),
                  UUIDParse(licenseData.NamespaceID))

\* a verify command that writes the record back with the --mac flag as its
\* device_id
VerifyCommandStampingRecord(files, interfaces, license, mac) ==
    IF ~Exists(files, license)
    THEN [files |-> files, report |-> [status |-> "Error loading license", mac |-> <<>>]]
    ELSE [files |-> SaveLicense(files,
                                [LoadLicense(files, license).val EXCEPT !.DeviceID = mac],
                                license),
          report |-> VerifyRecord(LoadLicense(files, license).val, interfaces, mac)]

\* commandVerifyLicense
VerifyCommand(files, interfaces, license, mac) ==
    IF ~Exists(files, license)
    THEN [files |-> files, report |-> [status |-> "Error loading license", mac |-> <<>>]]
    ELSE [files |-> files,
          report |-> VerifyRecord(LoadLicense(files, license).val, interfaces, mac)]

\* commandGenerateLicense between LoadConfig and SaveLicense: the record
\* issued for a raw identifier under a loaded configuration
\* an issuer that fills the PrivateKey field of the record with the
\* licensor's private key
IssueWithPrivateKey(config, macAddress, deviceUUID, licenseKey) ==
    IF licenseKey.kind = "panic" THEN [kind |-> "panic"]
    ELSE [kind |-> "ok",
          val |-> [DeviceID |-> macAddress,
                   DeviceUUID |-> UUIDString(deviceUUID),
                   LicenseKey |-> licenseKey.val,
                   PublicKey |-> HexEncodeToString(config.PublicKey),
                   PrivateKey |-> HexEncodeToString(config.PrivateKey),
                   NamespaceID |-> UUIDString(config.NamespaceID)]]

IssueWith(config, macAddress, deviceUUID, licenseKey) ==
    IF licenseKey.kind = "panic" THEN [kind |-> "panic"]
    ELSE [kind |-> "ok",
          val |-> [DeviceID |-> macAddress,
                   DeviceUUID |-> UUIDString(deviceUUID),
                   LicenseKey |-> licenseKey.val,
                   PublicKey |-> HexEncodeToString(config.PublicKey),
                   PrivateKey |-> <<>>,
                   NamespaceID |-> UUIDString(config.NamespaceID)]]

IssueForUUID(config, macAddress, deviceUUID) ==
    IssueWith(config, macAddress, deviceUUID, GenerateLicenseKey(config, deviceUUID))

IssueRecord(config, macAddress) ==
    IssueForUUID(config, macAddress, MacAddressToUUIDv5(macAddress, config.NamespaceID))

\* commandGenerateLicense
Unchanged(files, status) ==
    [files |-> files, report |-> [status |-> status, mac |-> <<>>]]

GenerateSave(files, rec, macAddress, output) ==
    IF rec.kind = "panic" THEN Unchanged(files, "panic")
    ELSE [files |-> SaveLicense(files, rec.val, output),
          report |-> [status |-> "License generated successfully", mac |-> macAddress]]

\* cfg is what LoadConfig gave, m the resolved address
GenerateWith(files, cfg, m, output) ==
    IF cfg.kind = "err" THEN Unchanged(files, "Error loading configuration")
    ELSE IF cfg.kind = "panic" THEN Unchanged(files, "panic")
    ELSE IF ~m.ok THEN Unchanged(files, "Error getting MAC address")
    ELSE GenerateSave(files, IssueRecord(cfg.config, m.val), m.val, output)

GenerateCommand(files, interfaces, config, mac, output) ==
    GenerateWith(files, LoadConfig(files, config),
                 ResolveMac(mac, GetBRLANMacAddress(interfaces)), output)

\* an init without the os.Stat check: it writes a new key pair over an
\* existing configuration
InitCommandOverwriting(files, config, n, m) ==
    [files |-> SaveConfig(files, GenerateKeyPair(n, m), config),
     report |-> [status |-> "initialized", mac |-> <<>>]]

\* commandInitConfig with the n-th key and m-th namespace of the random
\* source: nothing is generated or written when the file is already there

InitCommand(files, config, n, m) ==
    IF Exists(files, config)
    THEN [files |-> files, report |-> [status |-> "already exists", mac |-> <<>>]]
    ELSE [files |-> SaveConfig(files, GenerateKeyPair(n, m), config),
          report |-> [status |-> "initialized", mac |-> <<>>]]

NoCall == [pc |-> "none"]

Init ==
    /\ fs = [p \in Paths |-> NoFile]
    /\ ifaces \in Hosts
    /\ out = [cmd |-> "none", args |-> [cmd |-> "none"],
              report |-> [status |-> "", mac |-> <<>>]]
    /\ ncmds = 0
    /\ firstInit = [p \in Paths |-> NoFile]
    /\ call = NoCall

\* a command with arguments args ran and gave r: the files it left and its
\* report
Ran(args, r) ==
    /\ fs' = r.files
    /\ out' = [cmd |-> args.cmd, args |-> args, report |-> r.report]

\* license-manager init --config <config>
RunInit ==
    /\ ncmds < MaxCmds
    /\ \E config \in Paths, n \in 1..NumSeeds, m \in 1..NumNamespaces :
        Ran([cmd |-> "init", config |-> config], InitCommand(fs, config, n, m))
    /\ ncmds' = ncmds + 1
    /\ firstInit' = [p \in Paths |->
                        IF firstInit[p] = NoFile /\ out'.cmd = "init" /\ out'.args.config = p
                           /\ out'.report.status = "initialized"
                        THEN fs'[p] ELSE firstInit[p]]
    /\ UNCHANGED <<ifaces, call>>

\* license-manager generate --config <config> --mac <mac> --output <output>
RunGenerate ==
    /\ ncmds < MaxCmds
    /\ \E config \in Paths, mac \in FlagMacs, output \in Paths :
        Ran([cmd |-> "generate", config |-> config, flag |-> mac, output |-> output],
            GenerateCommand(fs, ifaces, config, mac, output))
    /\ ncmds' = ncmds + 1
    /\ UNCHANGED <<ifaces, firstInit, call>>

\* license-manager verify --license <license> --mac <mac>
RunVerify ==
    /\ ncmds < MaxCmds
    /\ \E license \in Paths, mac \in FlagMacs :
        Ran([cmd |-> "verify", license |-> license, flag |-> mac],
            VerifyCommand(fs, ifaces, license, mac))
    /\ ncmds' = ncmds + 1
    /\ UNCHANGED <<ifaces, firstInit, call>>

\* license-manager namespace: prints a fresh random UUID, touches no file
RunNamespace ==
    /\ ncmds < MaxCmds
    /\ \E m \in 1..NumNamespaces :
        out' = [cmd |-> "namespace", args |-> [cmd |-> "namespace"],
                report |-> [status |-> "Generated new namespace UUID", mac |-> <<>>,
                            printed |-> UUIDString(NewRandom(m))]]
    /\ ncmds' = ncmds + 1
    /\ UNCHANGED <<fs, ifaces, firstInit, call>>

Next == RunInit \/ RunGenerate \/ RunVerify \/ RunNamespace

Spec == Init /\ [][Next]_vars

(***************************************************************************)
(* Function-level specifications.  A key pair and a raw identifier are     *)
(* drawn, a license is issued for them (InitIssued), the record or the     *)
(* inputs are altered at most once, and the verifier is applied.  The      *)
(* files and the command history stay as in Init.                          *)
(***************************************************************************)
Idle ==
    /\ fs = [p \in Paths |-> NoFile]
    /\ ifaces = <<Loopback>>
    /\ out = [cmd |-> "none", args |-> [cmd |-> "none"],
              report |-> [status |-> "", mac |-> <<>>]]
    /\ ncmds = 0
    /\ firstInit = [p \in Paths |-> NoFile]

NoEdit == [kind |-> "none", pos |-> 0, arg |-> 0]

\* issue(keypair, rawIdentifier): the record generate builds
Issue(n, m, r) == IssueRecord(GenerateKeyPair(n, m), r).val

\* verify(publicKeyHex, rawIdentifier, licenseKey, namespace) on the fields
\* of a record: commandVerifyLicense from the namespace parse on, for the
\* raw identifier r
VerifyFor(licenseData, r) ==
    VerifyWithMac(licenseData, [ok |-> TRUE, val |-> r], UUIDParse(licenseData.NamespaceID))

InitIssued ==
    /\ Idle
    /\ \E n \in 1..NumSeeds, m \in 1..NumNamespaces, r \in RawIds :
        call = [pc |-> "issued", n |-> n, m |-> m, r |-> r, lic |-> Issue(n, m, r),
                edit |-> NoEdit, as |-> <<>>, res |-> [status |-> "", mac |-> <<>>]]

\* the record with one field replaced
Edited(kind, pos, arg, lic) ==
    call' = [call EXCEPT !.pc = "edited", !.lic = lic,
                         !.edit = [kind |-> kind, pos |-> pos, arg |-> arg]]

\* the verifier is given the public key of another key pair
PresentOtherKey ==
    /\ call.pc = "issued"
    /\ \E n2 \in (1..NumSeeds) \ {call.n} :
        Edited("other_key", 0, n2,
               [call.lic EXCEPT !.PublicKey = HexEncodeToString(GenerateKey(n2).pub)])
    /\ UNCHANGED <<fs, ifaces, out, ncmds, firstInit>>

\* the stored device_uuid is replaced: by the identity of another raw
\* identifier, or by text that is no UUID
EditStoredUUID ==
    /\ call.pc = "issued"
    /\ \E i \in 0..Len(MacList) :
        /\ i # 0 => MacList[i] # call.r
        /\ Edited("device_uuid", 0, i,
                  [call.lic EXCEPT !.DeviceUUID =
                      IF i = 0 THEN <<110, 111, 110, 101>>
                      ELSE UUIDString(MacAddressToUUIDv5(MacList[i], NewRandom(call.m)))])
    /\ UNCHANGED <<fs, ifaces, out, ncmds, firstInit>>

\* verify with an arbitrary raw identifier
VerifyAs ==
    /\ call.pc \in {"issued", "edited"}
    /\ \E r2 \in RawIds :
        call' = [call EXCEPT !.pc = "verified", !.as = r2, !.res = VerifyFor(call.lic, r2)]
    /\ UNCHANGED <<fs, ifaces, out, ncmds, firstInit>>

NextVerify == PresentOtherKey \/ EditStoredUUID \/ VerifyAs

SpecVerify == InitIssued /\ [][NextVerify]_vars

(***************************************************************************)
(* Tampering.  After a record is issued, one of its text fields is altered *)
(* once (a bit of the license key text, a bit of the signature it encodes, *)
(* a byte inserted into the license key, the license key of another        *)
(* license, the public key cut, padded or spoiled), and the verifier is    *)
(* applied for the raw identifier of issuance.                             *)
(***************************************************************************)
\* bytes inserted into a license key: LF, CR, '!', '-', '='
InsertedBytes == {10, 13, 33, 45, 61}

\* bytes that are no hex digit, written over a character of the public key:
\* 'g', space
NonHexBytes == {103, 32}

\* s with byte c inserted before position p (p = Len(s) + 1 appends)
InsertAt(s, p, c) ==
    AsSeq([i \in 1..(Len(s) + 1) |-> IF i < p THEN s[i] ELSE IF i = p THEN c ELSE s[i - 1]])

\* a record issued for a raw identifier as the --mac flag of generate gives
\* it (the empty one stands for a br-lan interface without an address)
InitTamper ==
    /\ Idle
    /\ \E n \in 1..NumSeeds, m \in 1..NumNamespaces, r \in FlagMacs :
        call = [pc |-> "issued", n |-> n, m |-> m, r |-> r, lic |-> Issue(n, m, r),
                edit |-> NoEdit, as |-> <<>>, res |-> [status |-> "", mac |-> <<>>]]

\* one bit of one character of the license key text is inverted
FlipLicenseKeyBit ==
    /\ call.pc = "issued"
    /\ \E pos \in 1..Len(call.lic.LicenseKey), bit \in 0..7 :
        Edited("key_bit", pos, bit,
               [call.lic EXCEPT !.LicenseKey =
                   SetAt(call.lic.LicenseKey, pos, FlipBit(call.lic.LicenseKey[pos], bit))])
    /\ UNCHANGED <<fs, ifaces, out, ncmds, firstInit>>

\* the license key with one bit of the signature it encodes inverted
SignatureBitFlipped(sig, pos, bit) ==
    B64EncodeToString(SetAt(sig, pos, FlipBit(sig[pos], bit)))

\* one bit of the signature is inverted and the signature encoded again
FlipSignatureBit ==
    /\ call.pc = "issued"
    /\ \E pos \in 1..Len(B64DecodeString(call.lic.LicenseKey).val), bit \in 0..7 :
        Edited("sig_bit", pos, bit,
               [call.lic EXCEPT !.LicenseKey =
                   SignatureBitFlipped(B64DecodeString(call.lic.LicenseKey).val, pos, bit)])
    /\ UNCHANGED <<fs, ifaces, out, ncmds, firstInit>>

\* a byte is inserted into the license key text
InsertLicenseKeyByte ==
    /\ call.pc = "issued"
    /\ \E pos \in 1..(Len(call.lic.LicenseKey) + 1), c \in InsertedBytes :
        Edited("key_insert", pos, c,
               [call.lic EXCEPT !.LicenseKey = InsertAt(call.lic.LicenseKey, pos, c)])
    /\ UNCHANGED <<fs, ifaces, out, ncmds, firstInit>>

\* the license key is replaced by the license key of another license: one
\* issued under another key pair or for another identity
PresentOtherLicenseKey ==
    /\ call.pc = "issued"
    /\ \E n2 \in 1..NumSeeds, i \in DOMAIN MacList :
        /\ n2 # call.n \/ StripColons(MacList[i]) # StripColons(call.r)
        /\ Edited("other_license", i, n2,
                  [call.lic EXCEPT !.LicenseKey = Issue(n2, call.m, MacList[i]).LicenseKey])
    /\ UNCHANGED <<fs, ifaces, out, ncmds, firstInit>>

\* the first len characters of the public key text, padded with '0' beyond
\* its end
PublicKeyResized(pk, len) ==
    AsSeq([i \in 1..len |-> IF i <= Len(pk) THEN pk[i] ELSE 48])

\* the public key text is cut or padded to another length
ResizePublicKey ==
    /\ call.pc = "issued"
    /\ \E len \in 0..(Len(call.lic.PublicKey) + 2) :
        /\ len # Len(call.lic.PublicKey)
        /\ Edited("pk_resize", 0, len,
                  [call.lic EXCEPT !.PublicKey = PublicKeyResized(call.lic.PublicKey, len)])
    /\ UNCHANGED <<fs, ifaces, out, ncmds, firstInit>>

\* a character of the public key text is overwritten by one that is no hex
\* digit
SpoilPublicKey ==
    /\ call.pc = "issued"
    /\ \E pos \in 1..Len(call.lic.PublicKey), c \in NonHexBytes :
        Edited("pk_nonhex", pos, c,
               [call.lic EXCEPT !.PublicKey = SetAt(call.lic.PublicKey, pos, c)])
    /\ UNCHANGED <<fs, ifaces, out, ncmds, firstInit>>

\* the hex digits of the public key are written in upper case
UpperCasePublicKey ==
    /\ call.pc = "issued"
    /\ Edited("pk_upper", 0, 0,
              [call.lic EXCEPT !.PublicKey =
                  AsSeq([i \in 1..Len(call.lic.PublicKey) |->
                      IF call.lic.PublicKey[i] >= 97
                      THEN call.lic.PublicKey[i] - 32 ELSE call.lic.PublicKey[i]])])
    /\ UNCHANGED <<fs, ifaces, out, ncmds, firstInit>>

\* verify for the raw identifier of issuance
VerifyPresented ==
    /\ call.pc \in {"issued", "edited"}
    /\ call' = [call EXCEPT !.pc = "verified", !.as = call.r,
                            !.res = VerifyFor(call.lic, call.r)]
    /\ UNCHANGED <<fs, ifaces, out, ncmds, firstInit>>

NextTamper ==
    \/ FlipLicenseKeyBit
    \/ FlipSignatureBit
    \/ InsertLicenseKeyByte
    \/ PresentOtherLicenseKey
    \/ ResizePublicKey
    \/ SpoilPublicKey
    \/ UpperCasePublicKey
    \/ VerifyPresented

SpecTamper == InitTamper /\ [][NextTamper]_vars

(***************************************************************************)
(* The stand-ins for SHA-1 and Ed25519 are collision-free on the inputs    *)
(* explored: distinct (namespace, normalized identifier) pairs give        *)
(* distinct identities, distinct seeds distinct public keys, and distinct  *)
(* (key, identity) pairs distinct signatures.                              *)
(***************************************************************************)
CryptoModelSound ==
    LET Names == {StripColons(r) : r \in RawIds}
        Spaces == {NewRandom(m) : m \in 1..NumNamespaces}
        Ids == {NewSHA1(ns, name) : ns \in Spaces, name \in Names}
        Keys == {GenerateKey(n) : n \in 1..NumSeeds}
    IN  /\ Cardinality(Spaces) = NumNamespaces
        /\ Cardinality(Ids) = Cardinality(Spaces) * Cardinality(Names)
        /\ Cardinality({k.pub : k \in Keys}) = NumSeeds
        /\ Cardinality({SignBytes(k.priv, id) : k \in Keys, id \in Ids})
             = NumSeeds * Cardinality(Ids)

(***************************************************************************)
(* Claims.                                                                 *)
(***************************************************************************)
\* the file a verify command read is a license record written by generate
\* for the raw identifier the command verified
VerifiedOwnLicense ==
    /\ out.cmd = "verify"
    /\ Exists(fs, out.args.license)
    /\ "license_key" \in DOMAIN Content(fs, out.args.license)
    /\ out.report.status # "Error getting MAC address"
    /\ Content(fs, out.args.license).device_id = out.report.mac

\* C1: a license that generate issued for a raw identifier, left as written,
\* verifies for that same raw identifier: the verify command reports VALID,
\* with no error.
C1_IssuedLicenseVerifies == VerifiedOwnLicense => out.report.status = "VALID"

C1_Witness == VerifiedOwnLicense /\ out.report.status = "VALID"

\* the verifier ran on the issued record, its public key and license key as
\* issued, for some raw identifier
VerifiedUnderOwnKey ==
    call.pc = "verified" /\ call.edit.kind \in {"none", "device_uuid"}

\* C2 as stated: whenever the raw identifier presented to verify differs
\* from the one used at issuance, verification returns false.
C2_AnyOtherIdentifierFails ==
    (VerifiedUnderOwnKey /\ call.as # call.r) => call.res.status = "INVALID"

\* C2 amended: the verdict is decided by the raw identifier presented, with
\* its colons removed: verification returns true exactly when that equals
\* the colon-free identifier of issuance, and false otherwise, whatever the
\* stored device_uuid holds.
C2_VerdictBoundToPresentedIdentifier ==
    VerifiedUnderOwnKey =>
        call.res.status =
            IF StripColons(call.as) = StripColons(call.r) THEN "VALID" ELSE "INVALID"

C2_Witness ==
    /\ call.pc = "verified"
    /\ call.edit.kind = "none"
    /\ StripColons(call.as) # StripColons(call.r)
    /\ call.res.status = "INVALID"

\* C3: a license verifies only under the public key of the key pair that
\* signed it: presented with the public key of another key pair, and the raw
\* identifier of issuance, verify returns false.
C3_OtherPublicKeyFails ==
    (call.pc = "verified" /\ call.edit.kind = "other_key" /\ call.as = call.r)
        => call.res.status = "INVALID"

C3_Witness ==
    /\ call.pc = "verified"
    /\ call.edit.kind = "other_key"
    /\ call.as = call.r
    /\ call.res.status = "INVALID"

\* C10 as stated: after any sequence of commands, the file at a location
\* where init succeeded is the one that first successful init wrote.
C10_ConfigNeverChanges ==
    \A p \in Paths : firstInit[p] # NoFile => fs[p] = firstInit[p]

\* C10 amended: a persisted configuration is changed by no init, verify or
\* namespace command, and by a generate command only when that command's
\* output location is the configuration's own location; in particular a
\* later init on an existing configuration leaves it unchanged.
C10_ConfigChangedOnlyAsGenerateOutput ==
    [][\A p \in Paths :
          (firstInit[p] # NoFile /\ fs[p] = firstInit[p]
           /\ ~(out'.cmd = "generate" /\ out'.args.output = p))
              => fs'[p] = fs[p]]_vars

C10_Witness ==
    \E p \in Paths :
        /\ firstInit[p] # NoFile
        /\ fs[p] = firstInit[p]
        /\ out.cmd = "init"
        /\ out.args.config = p
        /\ out.report.status = "already exists"

\* the verifier ran, for the raw identifier of issuance, on the record after
\* an alteration of the given kind
VerifiedAfter(kinds) ==
    call.pc = "verified" /\ call.as = call.r /\ call.edit.kind \in kinds

FormatError == call.res.status = "Error verifying license"

\* C4: flipping any single bit of a valid license key makes verify return
\* false and never an error; in particular the altered key, all other inputs
\* unchanged, is not accepted as valid.
C4_FlippedLicenseKeyNotAccepted ==
    VerifiedAfter({"key_bit"}) => call.res.status # "VALID"

\* the bytes of the standard base64 alphabet, and the padding byte '='
Base64Bytes == {c \in Byte : B64Value(c) # 255} \cup {61}

HasByteOutside(t, allowed) == \E i \in 1..Len(t) : t[i] \notin allowed

\* a public key text of odd length or with a byte that is no hex digit
MalformedHex(t) ==
    Len(t) % 2 = 1 \/ \E i \in 1..Len(t) : FromHexChar(t[i]) < 0

\* a license key text that decodes, to bytes other than the signature issued,
\* presented with the public key as issued
WellFormedMismatch ==
    /\ VerifiedAfter({"key_bit", "sig_bit", "other_license"})
    /\ B64DecodeString(call.lic.LicenseKey).ok
    /\ B64DecodeString(call.lic.LicenseKey).val
         # B64DecodeString(Issue(call.n, call.m, call.r).LicenseKey).val

\* the malformed public key and the mismatch parts of C5
C5_MalformedKeyAndMismatch ==
    /\ (call.pc = "verified" /\ MalformedHex(call.lic.PublicKey)) => FormatError
    /\ WellFormedMismatch => call.res.status = "INVALID"

\* C5 as stated: a license key containing invalid base64 characters (bytes
\* outside the alphabet and its padding), or a public key of odd length or
\* with non-hex characters, yields a format error and not false; a
\* well-formed license key that does not match yields false with no error.
C5_MalformedIsErrorMismatchIsFalse ==
    /\ (call.pc = "verified" /\ HasByteOutside(call.lic.LicenseKey, Base64Bytes))
          => FormatError
    /\ C5_MalformedKeyAndMismatch

\* C5 amended: carriage returns and line feeds in a license key are skipped:
\* a license key with one inserted verifies as the key without it does.  A
\* license key containing any other byte outside the base64 alphabet and its
\* padding, or a public key of odd length or with non-hex characters, yields
\* a format error; a well-formed license key that does not match yields
\* false with no error.
C5_MalformedExceptLineBreaksIsError ==
    /\ (call.pc = "verified"
        /\ HasByteOutside(call.lic.LicenseKey, Base64Bytes \cup {10, 13}))
          => FormatError
    /\ (VerifiedAfter({"key_insert"}) /\ IsNewline(call.edit.arg))
          => call.res.status = "VALID"
    /\ C5_MalformedKeyAndMismatch

C5_Witness ==
    /\ VerifiedAfter({"key_insert"})
    /\ call.edit.arg = 33
    /\ FormatError

\* C6: verify fails with a format error, returned as an error value,
\* whenever the public key is valid hex but decodes to a key of the wrong
\* length.
C6_WrongLengthPublicKeyIsFormatError ==
    (/\ call.pc = "verified"
     /\ HexDecodeString(call.lic.PublicKey).ok
     /\ Len(HexDecodeString(call.lic.PublicKey).val) # 32)
        => FormatError

(***************************************************************************)
(* Key pair persistence.  A key pair is generated, saved to a location,    *)
(* the stored record is altered at most once, and the location is loaded.  *)
(***************************************************************************)
InitKeys ==
    /\ Idle
    /\ \E n \in 1..NumSeeds, m \in 1..NumNamespaces :
        call = [pc |-> "generated", n |-> n, m |-> m, k |-> GenerateKeyPair(n, m),
                path |-> "", edit |-> NoEdit, res |-> [kind |-> "none"]]

\* save(k, location)
SaveKeys ==
    /\ call.pc = "generated"
    /\ \E p \in Paths :
        /\ fs' = SaveConfig(fs, call.k, p)
        /\ call' = [call EXCEPT !.pc = "saved", !.path = p]
    /\ UNCHANGED <<ifaces, out, ncmds, firstInit>>

\* the stored record with one field replaced
StoredEdited(kind, pos, arg, key, text) ==
    /\ fs' = WriteFile(fs, call.path, [Content(fs, call.path) EXCEPT ![key] = text])
    /\ call' = [call EXCEPT !.pc = "edited",
                            !.edit = [kind |-> kind, pos |-> pos, arg |-> arg]]

\* characters written over one of a stored key: '0', 'f' and 'g'
OverwritingBytes == {48, 102, 103}

\* one character of the stored public_key is overwritten
OverwritePublicKeyField ==
    /\ call.pc = "saved"
    /\ \E pos \in 1..Len(Content(fs, call.path).public_key), c \in OverwritingBytes :
        /\ Content(fs, call.path).public_key[pos] # c
        /\ StoredEdited("public_key", pos, c, "public_key",
                        SetAt(Content(fs, call.path).public_key, pos, c))
    /\ UNCHANGED <<ifaces, out, ncmds, firstInit>>

\* the stored public_key is replaced by the public key of another key pair
\* (n2 > 0) or emptied (n2 = 0)
ReplacePublicKeyField ==
    /\ call.pc = "saved"
    /\ \E n2 \in (0..NumSeeds) \ {call.n} :
        StoredEdited("public_key", 0, n2, "public_key",
                     IF n2 = 0 THEN <<>> ELSE HexEncodeToString(GenerateKey(n2).pub))
    /\ UNCHANGED <<ifaces, out, ncmds, firstInit>>

\* one character of the stored private_key is overwritten
OverwritePrivateKeyField ==
    /\ call.pc = "saved"
    /\ \E pos \in 1..Len(Content(fs, call.path).private_key), c \in OverwritingBytes :
        /\ Content(fs, call.path).private_key[pos] # c
        /\ StoredEdited("private_key", pos, c, "private_key",
                        SetAt(Content(fs, call.path).private_key, pos, c))
    /\ UNCHANGED <<ifaces, out, ncmds, firstInit>>

\* load(location)
LoadKeys ==
    /\ call.pc \in {"saved", "edited"}
    /\ call' = [call EXCEPT !.pc = "loaded", !.res = LoadConfig(fs, call.path)]
    /\ UNCHANGED <<fs, ifaces, out, ncmds, firstInit>>

NextKeys ==
    \/ SaveKeys
    \/ OverwritePublicKeyField
    \/ ReplacePublicKeyField
    \/ OverwritePrivateKeyField
    \/ LoadKeys

SpecKeys == InitKeys /\ [][NextKeys]_vars

\* C7: saving then loading a key pair is the identity: for every key pair k
\* of GenerateKeyPair, load(save(k)) succeeds with the private key, public
\* key and namespace identifier of k.
C7_LoadOfSaveIsIdentity ==
    (call.pc = "loaded" /\ call.edit.kind = "none")
        => (call.res.kind = "ok" /\ call.res.config = call.k)

C7_Witness ==
    /\ call.pc = "loaded"
    /\ call.edit.kind = "none"
    /\ call.res.kind = "ok"
    /\ call.res.config.PrivateKey = call.k.PrivateKey
    /\ Len(call.res.config.PublicKey) = 32

\* the stored public_key is not the public component of the stored
\* private_key, which is a well-formed key
StoredKeysInconsistent ==
    /\ call.pc = "loaded"
    /\ HexDecodeString(Content(fs, call.path).private_key).ok
    /\ Len(HexDecodeString(Content(fs, call.path).private_key).val) = 64
    /\ Content(fs, call.path).public_key
         # HexEncodeToString(PublicOfSeed(
               Slice(HexDecodeString(Content(fs, call.path).private_key).val, 1, 32)))

MaxSeparatorEdits == 1

\* ':', '-' and '.', the characters hardware addresses are written with
Separators == {58, 45, 46}

Without(s, chars) == SelectSeq(s, LAMBDA c : c \notin chars)

RemoveAt(s, p) == AsSeq([i \in 1..(Len(s) - 1) |-> IF i < p THEN s[i] ELSE s[i + 1]])

InitDerive ==
    /\ Idle
    /\ \E m \in 1..NumNamespaces, r \in RawIds :
        call = [pc |-> "chosen", m |-> m, r1 |-> r, r2 |-> r, edits |-> 0,
                id1 |-> <<>>, id2 |-> <<>>]

InsertSeparator ==
    /\ call.pc = "chosen"
    /\ call.edits < MaxSeparatorEdits
    /\ \E pos \in 1..(Len(call.r2) + 1), c \in Separators :
        call' = [call EXCEPT !.r2 = InsertAt(call.r2, pos, c), !.edits = call.edits + 1]
    /\ UNCHANGED <<fs, ifaces, out, ncmds, firstInit>>

RemoveSeparator ==
    /\ call.pc = "chosen"
    /\ call.edits < MaxSeparatorEdits
    /\ \E pos \in 1..Len(call.r2) :
        /\ call.r2[pos] \in Separators
        /\ call' = [call EXCEPT !.r2 = RemoveAt(call.r2, pos), !.edits = call.edits + 1]
    /\ UNCHANGED <<fs, ifaces, out, ncmds, firstInit>>

\* derive(r1, ns) and derive(r2, ns)
Derive ==
    /\ call.pc = "chosen"
    /\ call' = [call EXCEPT !.pc = "derived",
                            !.id1 = MacAddressToUUIDv5(call.r1, NewRandom(call.m)),
                            !.id2 = MacAddressToUUIDv5(call.r2, NewRandom(call.m))]
    /\ UNCHANGED <<fs, ifaces, out, ncmds, firstInit>>

NextDerive == InsertSeparator \/ RemoveSeparator \/ Derive

SpecDerive == InitDerive /\ [][NextDerive]_vars

\* C9 as stated: two raw identifiers that differ only in separator
\* characters (colons, hyphens, dots) give the same derived identity in
\* every namespace.
C9_SeparatorsDoNotMatter ==
    (call.pc = "derived" /\ Without(call.r1, Separators) = Without(call.r2, Separators))
        => call.id1 = call.id2

\* C9 amended: the colon is the only character derivation removes: two raw
\* identifiers give the same derived identity in a namespace exactly when
\* they are equal once their colons are removed.
C9_OnlyColonsDoNotMatter ==
    call.pc = "derived"
        => (call.id1 = call.id2 <=> Without(call.r1, {58}) = Without(call.r2, {58}))

C9_Witness ==
    /\ call.pc = "derived"
    /\ call.r1 # call.r2
    /\ Without(call.r1, {58}) = Without(call.r2, {58})
    /\ call.id1 = call.id2

\* the locations that hold a license record: in Spec every one of them was
\* written by generate
LicenseRecords == {p \in Paths : Exists(fs, p) /\ "license_key" \in DOMAIN Content(fs, p)}

\* the private keys of the configurations init has written, as persisted
PersistedPrivateKeys ==
    {Content(firstInit, q).private_key : q \in {q \in Paths : firstInit[q] # NoFile}}

\* C11: the licensor's private key never appears in a license record: every
\* license record written by generate has exactly the fields device_id,
\* device_uuid, license_key, public_key and namespace_id, no private_key
\* field, and none of its fields holds a private key.
C11_NoPrivateKeyInLicenseRecord ==
    \A p \in LicenseRecords :
        /\ DOMAIN Content(fs, p)
             = {"device_id", "device_uuid", "license_key", "public_key", "namespace_id"}
        /\ \A k \in DOMAIN Content(fs, p) : Content(fs, p)[k] \notin PersistedPrivateKeys

C11_Witness ==
    /\ out.cmd = "generate"
    /\ out.report.status = "License generated successfully"
    /\ out.args.output \in LicenseRecords
    /\ "private_key" \notin DOMAIN Content(fs, out.args.output)
    /\ PersistedPrivateKeys # {}

\* the step was a generate command that wrote its record to location p
GenerateWroteTo(p) ==
    /\ out'.cmd = "generate"
    /\ out'.args.output = p
    /\ out'.report.status = "License generated successfully"

\* C12 as stated: a persisted license record is immutable once written: no
\* later command changes the content of a location that holds a license
\* record, and verify changes no persisted record at all.
C12_LicenseRecordNeverChanges ==
    [][/\ \A p \in LicenseRecords : fs'[p] = fs[p]
       /\ out'.cmd = "verify" => fs' = fs]_vars

\* C12 amended: verify, init and namespace change no persisted record.
\* generate writes its record to the --output location over whatever is
\* there: a license record changes only in a step where generate succeeds
\* with that location as --output, and then holds the record issued for the
\* raw identifier of that command.
C12_LicenseRecordChangedOnlyByGenerate ==
    [][/\ \A p \in LicenseRecords :
            fs'[p] # fs[p] =>
                (GenerateWroteTo(p) /\ Content(fs', p).device_id = out'.report.mac)
       /\ out'.cmd \in {"verify", "init", "namespace"} =>
            \A p \in LicenseRecords : fs'[p] = fs[p]
       /\ out'.cmd = "verify" => fs' = fs]_vars

C12_Witness ==
    /\ out.cmd = "verify"
    /\ out.args.license \in LicenseRecords
    /\ out.report.status \in {"VALID", "INVALID"}
====
